---- MODULE Spec2Model ----
(***************************************************************************)
(* cloudflare-manager: the worker mirror (WorkersService) over the account *)
(* store.  Requests run on one cooperative thread and suspend only while  *)
(* they await the provider; every synchronous stretch of a handler is one *)
(* action.                                                                 *)
(***************************************************************************)
EXTENDS Integers, Sequences, FiniteSets, TLC

\* ------------------------------------------------------------------ bounds
MaxTime == 1
MaxBatch == 2
MaxFilter == 2

\* ------------------------------------------------------------ value spaces
NULL == "null"
AccountIds == {"A", "B"}
Subdomains == {"s1", "s2"}
Procs == {"p1", "p2"}
ProviderErrors == {"provider unavailable", "rate limited"}
StorageError == "SQLITE_ERROR"
MASTER_PASSWORD_KEY == "master_password_hash"
MinPasswordLength == 8

\* The passwords POST /init is given ("" for none) and the salts bcrypt draws.
Passwords == {"", "short", "password1", "password2"}
Salts == {"x", "y"}

\* What listWorkers() can report: {id, etag?, created_on?, modified_on?};
\* "" stands for an optional field the provider left out.
ProviderWorkers ==
    { [id |-> "w1", etag |-> "e1", created_on |-> "c1", modified_on |-> "m1"],
      [id |-> "w2", etag |-> "", created_on |-> "", modified_on |-> ""] }
Names == {w.id : w \in ProviderWorkers}

\* Worker ids are unique within an account, so a listing never repeats one.
Listings ==
    {<<>>} \cup {<<w>> : w \in ProviderWorkers}
           \cup {x \in ProviderWorkers \X ProviderWorkers : x[1].id = "w1" /\ x[2].id = "w2"}

BatchLists == UNION {[1..n -> AccountIds] : n \in 1..MaxBatch}

\* The accountIds arrays getWorkers is given: known ids and an unknown one.
FilterLists == UNION {[1..n -> AccountIds \cup {"Z"}] : n \in 0..MaxFilter}

\* accounts, workers: the two tables, as sets of rows; now: the clock that
\* CURRENT_TIMESTAMP reads; procs: the requests in progress; config: the
\* system configuration, a value per key.
VARIABLES accounts, workers, now, procs, config

vars == <<accounts, workers, now, procs, config>>

\* ------------------------------------------------------------------ helpers
ListedIds(list) == {list[i].id : i \in DOMAIN list}

\* x || null
OrNull(x) == IF x = "" THEN NULL ELSE x

\* CURRENT_TIMESTAMP, as the text the column stores.
Stamp(t) == ToString(t)

\* A provider call: not issued, pending, or settled with a value or an error.
ListUnused == [st |-> "unused", val |-> <<>>, err |-> ""]
ListPending == [st |-> "pending", val |-> <<>>, err |-> ""]
ListFulfilled(l) == [st |-> "ok", val |-> l, err |-> ""]
ListRejected(e) == [st |-> "fail", val |-> <<>>, err |-> e]

Unused == [st |-> "unused", val |-> NULL, err |-> ""]
Pending == [st |-> "pending", val |-> NULL, err |-> ""]
Fulfilled(v) == [st |-> "ok", val |-> v, err |-> ""]
Rejected(e) == [st |-> "fail", val |-> NULL, err |-> e]

\* What a call returned (a count, a map of per-account outcomes, a sequence
\* of rows, a session token, or nothing) or the message of the error it
\* threw or answered.
NoResult ==
    [kind |-> "none", count |-> 0, msg |-> <<>>, map |-> {}, rows |-> <<>>, token |-> FALSE]
Returned(n) ==
    [kind |-> "ok", count |-> n, msg |-> <<>>, map |-> {}, rows |-> <<>>, token |-> FALSE]
ReturnedVoid ==
    [kind |-> "ok", count |-> 0, msg |-> <<>>, map |-> {}, rows |-> <<>>, token |-> FALSE]
ReturnedMap(m) ==
    [kind |-> "ok", count |-> 0, msg |-> <<>>, map |-> m, rows |-> <<>>, token |-> FALSE]
ReturnedRows(rs) ==
    [kind |-> "ok", count |-> 0, msg |-> <<>>, map |-> {}, rows |-> rs, token |-> FALSE]
ReturnedToken ==
    [kind |-> "ok", count |-> 0, msg |-> <<>>, map |-> {}, rows |-> <<>>, token |-> TRUE]
Thrown(m) ==
    [kind |-> "err", count |-> 0, msg |-> m, map |-> {}, rows |-> <<>>, token |-> FALSE]

NoCalls == [list |-> 0, sub |-> 0, upd |-> 0, del |-> 0]

AccountNotFoundMsg(a) == <<"Account ", a, " not found">>
SyncFailedMsg(a, cause) == <<"Failed to sync workers for account ", a, ": ">> \o cause
WorkerNotInAccountMsg(n, a) == <<"Worker ", n, " not found in account ", a>>
WorkerNotInCloudflareMsg(n) == <<"Worker ", n, " not found in Cloudflare">>
WorkerNotInDatabaseMsg(n) == <<"Worker ", n, " not found in database">>
BatchErrorMsg(m) == <<"Error: ">> \o m

\* A request slot.  op/pc: which handler runs and where it is suspended;
\* list/sub/rem: the provider calls it awaits; rowId: the id of the row it
\* looked up; ids/idx/results: the loop of syncMultipleAccounts; calls: how
\* many provider calls of each kind the current call has issued; log: the
\* outcome of every iteration of the batch loop so far; filtered/ids: whether
\* getWorkers was given an accountIds array, and the array; password: the
\* password POST /init was given.
IdleProc ==
    [op |-> "none", pc |-> "idle", acct |-> NULL, name |-> NULL,
     list |-> ListUnused, sub |-> Unused, rem |-> Unused, rowId |-> 0,
     ids |-> <<>>, idx |-> 0, results |-> {}, log |-> <<>>, filtered |-> FALSE,
     password |-> "", calls |-> NoCalls, result |-> NoResult]

\* A settled request: what it was, what it returned, and the calls it made.
Settle(pr, res) ==
    [IdleProc EXCEPT !.op = pr.op, !.pc = "done", !.acct = pr.acct, !.name = pr.name,
                     !.ids = pr.ids, !.idx = pr.idx, !.log = pr.log,
                     !.filtered = pr.filtered, !.password = pr.password,
                     !.calls = pr.calls, !.result = res]

\* ------------------------------------------------------------ the two tables
HasAccount(accts, a) == \E r \in accts : r.id = a
RowsOf(ws, a) == {r \in ws : r.accountId = a}
NamesOf(ws, a) == {r.name : r \in RowsOf(ws, a)}
FindRows(ws, n, a) == {r \in ws : r.name = n /\ r.accountId = a}

\* crypto.randomUUID(): ids that no row and no request in flight holds.
UsedIds == {r.id : r \in workers} \cup {procs[p].rowId : p \in Procs}
RECURSIVE FreshIds(_, _)
FreshIds(used, k) ==
    IF k = 0 THEN <<>>
    ELSE LET i == CHOOSE j \in 1..(Cardinality(used) + 1) : j \notin used
         IN <<i>> \o FreshIds(used \cup {i}, k - 1)

WorkerUrl(id, subdomain) == <<"https://", id, ".", subdomain, ".workers.dev">>

\* A row whose url is built from the local row id instead of the worker id.
MakeRowUrlById(workerId, a, worker, subdomain, t) ==
    [id |-> workerId, accountId |-> a, name |-> worker.id,
     subdomain |-> subdomain, url |-> WorkerUrl(ToString(workerId), subdomain),
     scriptHash |-> OrNull(worker.etag), createdOn |-> OrNull(worker.created_on),
     modifiedOn |-> OrNull(worker.modified_on), lastSynced |-> Stamp(t)]

MakeRow(workerId, a, worker, subdomain, t) ==
    [id |-> workerId, accountId |-> a, name |-> worker.id,
     subdomain |-> subdomain, url |-> WorkerUrl(worker.id, subdomain),
     scriptHash |-> OrNull(worker.etag), createdOn |-> OrNull(worker.created_on),
     modifiedOn |-> OrNull(worker.modified_on), lastSynced |-> Stamp(t)]

\* The schema of the store: workers.account_id is a foreign key to
\* accounts.id, which the store enforces on insert, and deleting an account
\* cascades to its worker rows.
ForeignKeyHolds(accts, a) == HasAccount(accts, a)

\* A store whose delete of an account leaves the worker rows alone.
CascadeNone(ws, a) == ws

CascadeDelete(ws, a) == ws \ RowsOf(ws, a)

\* A delete that removes nothing.
DeleteNoRows(ws, a) == ws

\* DELETE FROM workers WHERE account_id = ?
DeleteAccountRows(ws, a) == ws \ RowsOf(ws, a)

\* The insert loop without db.transaction: the rows before the failing one stay.
InsertEach(ws, a, list, subdomain, ids, t, failAt) ==
    ws \cup {MakeRow(ids[i], a, list[i], subdomain, t) :
                i \in {j \in DOMAIN list : failAt = 0 \/ j < failAt}}

\* db.transaction(...)(workers): every row or, when an insert throws, none.
InsertTxn(ws, a, list, subdomain, ids, t, failAt) ==
    IF failAt = 0
    THEN ws \cup {MakeRow(ids[i], a, list[i], subdomain, t) : i \in DOMAIN list}
    ELSE ws

\* The UPDATE without its WHERE clause.
UpdateEveryAccountSync(accts, a, subdomain, t) ==
    {[r EXCEPT !.subdomain = subdomain, !.lastCheck = Stamp(t)] : r \in accts}

\* UPDATE accounts SET subdomain = ?, last_check = CURRENT_TIMESTAMP WHERE id = ?
UpdateAccountSync(accts, a, subdomain, t) ==
    {IF r.id = a THEN [r EXCEPT !.subdomain = subdomain, !.lastCheck = Stamp(t)] ELSE r :
        r \in accts}

\* Promise.all that does not wait for getSubdomain().
PromiseFirst(l, s) ==
    IF l.st = "fail" THEN [st |-> "fail", list |-> <<>>, sub |-> NULL, err |-> l.err]
    ELSE IF l.st = "ok" THEN [st |-> "ok", list |-> l.val, sub |-> s.val, err |-> ""]
    ELSE [st |-> "pending", list |-> <<>>, sub |-> NULL, err |-> ""]

\* Promise.all([listWorkers(), getSubdomain()])
PromiseAll(l, s) ==
    IF l.st = "fail" THEN [st |-> "fail", list |-> <<>>, sub |-> NULL, err |-> l.err]
    ELSE IF s.st = "fail" THEN [st |-> "fail", list |-> <<>>, sub |-> NULL, err |-> s.err]
    ELSE IF l.st = "ok" /\ s.st = "ok"
         THEN [st |-> "ok", list |-> l.val, sub |-> s.val, err |-> ""]
    ELSE [st |-> "pending", list |-> <<>>, sub |-> NULL, err |-> ""]

\* A reconciliation that treats an empty listing as a failure.
SyncReconcileEmptyFails(ws, accts, a, list, subdomain, ids, t, failAt) ==
    LET deleted == DeleteAccountRows(ws, a) IN
    IF Len(list) = 0
    THEN [workers |-> ws, accounts |-> accts,
          result |-> Thrown(SyncFailedMsg(a, <<"no workers">>))]
    ELSE IF failAt # 0
    THEN [workers |-> InsertTxn(deleted, a, list, subdomain, ids, t, failAt),
          accounts |-> accts,
          result |-> Thrown(SyncFailedMsg(a, <<StorageError>>))]
    ELSE [workers |-> InsertTxn(deleted, a, list, subdomain, ids, t, failAt),
          accounts |-> UpdateAccountSync(accts, a, subdomain, t),
          result |-> Returned(Len(list))]

\* The body of syncAccountWorkers after the await, as one outcome:
\* the two tables and what the call returns or throws.  The first insert
\* throws when the store rejects the row's account_id.
SyncReconcile(ws, accts, a, list, subdomain, ids, t, failAt) ==
    LET deleted == DeleteAccountRows(ws, a)
        fail == IF ForeignKeyHolds(accts, a) THEN failAt ELSE 1
    IN
    IF Len(list) = 0
    THEN [workers |-> deleted, accounts |-> accts, result |-> Returned(0)]
    ELSE IF fail # 0
    THEN [workers |-> InsertTxn(deleted, a, list, subdomain, ids, t, fail),
          accounts |-> accts,
          result |-> Thrown(SyncFailedMsg(a, <<StorageError>>))]
    ELSE [workers |-> InsertTxn(deleted, a, list, subdomain, ids, t, fail),
          accounts |-> UpdateAccountSync(accts, a, subdomain, t),
          result |-> Returned(Len(list))]

\* --------------------------------------------------------------------- Init
Init ==
    /\ accounts = {}
    /\ workers = {}
    /\ now = 0
    /\ procs = [p \in Procs |-> IdleProc]
    /\ config = [k \in {MASTER_PASSWORD_KEY} |-> NULL]

\* ------------------------------------------------------------- environment
Tick ==
    /\ now < MaxTime
    /\ now' = now + 1
    /\ UNCHANGED <<accounts, workers, procs, config>>

\* The request bodies of the account routes; "" stands for a field that the
\* body leaves out.
Bodies ==
    [name : {"", "n1"}, authType : {"", "token", "email-key"}, accountId : {"", "cf1"},
     apiToken : {"", "t1"}, authEmail : {"", "m1"}, authKey : {"", "k1"}]

TokenBody ==
    [name |-> "n1", authType |-> "token", accountId |-> "cf1",
     apiToken |-> "t1", authEmail |-> "", authKey |-> ""]

\* The arrays POST /import is given: one or two bodies.
ImportLists == {<<b>> : b \in Bodies} \cup (Bodies \X Bodies)

\* The credential checks of POST / and of POST /import.
CredentialsGiven(b) ==
    /\ b.authType = "token" => b.apiToken # ""
    /\ b.authType = "email-key" => (b.authEmail # "" /\ b.authKey # "")

CreateValid(b) ==
    b.name # "" /\ b.authType # "" /\ b.accountId # "" /\ CredentialsGiven(b)

ImportValid(b) == b.authType # "" /\ b.accountId # "" /\ CredentialsGiven(b)

\* INSERT INTO accounts (...): the columns the claims read.
NewAccount(a, b) ==
    [id |-> a, authType |-> b.authType, apiToken |-> OrNull(b.apiToken),
     authEmail |-> OrNull(b.authEmail), authKey |-> OrNull(b.authKey),
     subdomain |-> NULL, status |-> "active", lastCheck |-> NULL,
     lastError |-> NULL]

\* POST /: a body that fails a check is answered 400 and changes nothing.
CreateAccount(a, b) ==
    /\ ~HasAccount(accounts, a)
    /\ CreateValid(b)
    /\ accounts' = accounts \cup {NewAccount(a, b)}
    /\ UNCHANGED <<workers, now, procs, config>>

\* nanoid(): an id that no account has.
FreshAccountId(accts) == CHOOSE a \in AccountIds : ~HasAccount(accts, a)

\* accounts.forEach(...): each body that passes the checks is inserted under
\* a fresh id, each other one is reported and skipped.
RECURSIVE ImportRows(_, _, _)
ImportRows(accts, bs, i) ==
    IF i > Len(bs) THEN accts
    ELSE IF ImportValid(bs[i])
    THEN ImportRows(accts \cup {NewAccount(FreshAccountId(accts), bs[i])}, bs, i + 1)
    ELSE ImportRows(accts, bs, i + 1)

\* POST /import
ImportAccounts(bs) ==
    /\ Cardinality({i \in DOMAIN bs : ImportValid(bs[i])})
          <= Cardinality({a \in AccountIds : ~HasAccount(accounts, a)})
    /\ accounts' = ImportRows(accounts, bs, 1)
    /\ accounts' # accounts
    /\ UNCHANGED <<workers, now, procs, config>>

\* UPDATE accounts SET name, auth_type, account_id, api_token, auth_email,
\* auth_key, updated_at WHERE id = ?
UpdateAccountRow(accts, a, b) ==
    {IF r.id = a
     THEN [r EXCEPT !.authType = b.authType, !.apiToken = OrNull(b.apiToken),
                    !.authEmail = OrNull(b.authEmail), !.authKey = OrNull(b.authKey)]
     ELSE r : r \in accts}

\* PUT /:id: 404 for an unknown id; name, authType and accountId are bound
\* as they come, and the statement throws on one that is undefined; no
\* credential check is made.
PutAccount(a, b) ==
    /\ HasAccount(accounts, a)
    /\ b.name # "" /\ b.authType # "" /\ b.accountId # ""
    /\ accounts' = UpdateAccountRow(accounts, a, b)
    /\ UNCHANGED <<workers, now, procs, config>>

\* DELETE /:id: 404 for an unknown id, else the account row is deleted and
\* the store cascades.
DeleteAccount(a) ==
    /\ HasAccount(accounts, a)
    /\ accounts' = {r \in accounts : r.id # a}
    /\ workers' = CascadeDelete(workers, a)
    /\ UNCHANGED <<now, procs, config>>

\* What a provider call can settle to.
ListResponses == {ListFulfilled(l) : l \in Listings} \cup {ListRejected(e) : e \in ProviderErrors}
SubdomainResponses(subs) == {Fulfilled(s) : s \in subs} \cup {Rejected(e) : e \in ProviderErrors}
RemoteResponses == {Fulfilled(NULL)} \cup {Rejected(e) : e \in ProviderErrors}

\* Where an insert can throw: nowhere (0) or at the i-th fetched worker.
FailPoints(l) == 0..Len(l.val)

\* A slot is free before its first request and once its request has settled;
\* a new request takes the first free slot.
Free(p) == procs[p].pc \in {"idle", "done"}
CanStart(p) == Free(p) /\ \A q \in Procs : (q = "p1" /\ p = "p2") => ~Free(q)

\* ------------------------------------------------------- syncAccountWorkers
\* The lookup without its not-found check.
SyncLookupBlind(pr, a) ==
    [pr EXCEPT !.acct = a, !.list = ListPending, !.sub = Pending,
               !.calls = [NoCalls EXCEPT !.list = 1, !.sub = 1],
               !.result = NoResult]

\* Lines 54-66: the lookup, then both provider calls are issued.
SyncLookup(pr, a) ==
    IF ~HasAccount(accounts, a)
    THEN [pr EXCEPT !.acct = a, !.list = ListUnused, !.sub = Unused,
                    !.calls = NoCalls,
                    !.result = Thrown(AccountNotFoundMsg(a))]
    ELSE [pr EXCEPT !.acct = a, !.list = ListPending, !.sub = Pending,
                    !.calls = [NoCalls EXCEPT !.list = 1, !.sub = 1],
                    !.result = NoResult]

SyncStart(p, a) ==
    /\ CanStart(p)
    /\ LET pr == SyncLookup([IdleProc EXCEPT !.op = "sync"], a) IN
       procs' = [procs EXCEPT ![p] =
                    IF pr.result.kind = "err" THEN Settle(pr, pr.result)
                    ELSE [pr EXCEPT !.pc = "fetch"]]
    /\ UNCHANGED <<accounts, workers, now, config>>

\* Lines 62-105 once Promise.all has settled to `all`.
SyncOutcome(p, all, failAt) ==
    IF all.st = "fail"
    THEN [workers |-> workers, accounts |-> accounts,
          result |-> Thrown(SyncFailedMsg(procs[p].acct, <<all.err>>))]
    ELSE SyncReconcile(workers, accounts, procs[p].acct, all.list, all.sub,
                       FreshIds(UsedIds, Len(all.list)), now, failAt)

\* How a request leaves its await in syncAccountWorkers: a single sync
\* settles, a batch goes back to its loop with the result.
AfterSync(pr, res) ==
    IF pr.op = "batch"
    THEN [pr EXCEPT !.pc = "loop", !.result = res, !.list = ListUnused, !.sub = Unused]
    ELSE Settle(pr, res)

\* One of the two awaited calls settles, leaving them as l and s: the sync
\* stays suspended while Promise.all is pending and continues when it settles.
SyncResume(p, l, s, failAt) ==
    LET all == PromiseAll(l, s) IN
    IF all.st = "pending"
    THEN /\ procs' = [procs EXCEPT ![p].list = l, ![p].sub = s]
         /\ UNCHANGED <<accounts, workers, now, config>>
    ELSE LET out == SyncOutcome(p, all, failAt) IN
         /\ workers' = out.workers
         /\ accounts' = out.accounts
         /\ procs' = [procs EXCEPT ![p] = AfterSync(procs[p], out.result)]
         /\ UNCHANGED <<now, config>>

\* The provider answers the pending listWorkers() of a sync.
SyncListReturn(p, r, failAt) ==
    /\ procs[p].pc = "fetch"
    /\ procs[p].list.st = "pending"
    /\ SyncResume(p, r, procs[p].sub, failAt)

\* The provider answers the pending getSubdomain() of a sync.
SyncSubdomainReturn(p, r, failAt) ==
    /\ procs[p].pc = "fetch"
    /\ procs[p].sub.st = "pending"
    /\ SyncResume(p, procs[p].list, r, failAt)

\* ----------------------------------------------------- syncMultipleAccounts
\* A loop that a failed account ends.
BatchEnterAbort(pr) ==
    IF pr.idx > Len(pr.ids) \/ (pr.log # <<>> /\ pr.log[Len(pr.log)].kind = "err")
    THEN Settle(pr, ReturnedMap(pr.results))
    ELSE LET q == SyncLookup(pr, pr.ids[pr.idx]) IN
         [q EXCEPT !.pc = IF q.result.kind = "err" THEN "loop" ELSE "fetch"]

\* The synchronous start of iteration pr.idx: syncAccountWorkers runs up to
\* its await, or throws at once when the account is unknown.
BatchEnter(pr) ==
    IF pr.idx > Len(pr.ids)
    THEN Settle(pr, ReturnedMap(pr.results))
    ELSE LET q == SyncLookup(pr, pr.ids[pr.idx]) IN
         [q EXCEPT !.pc = IF q.result.kind = "err" THEN "loop" ELSE "fetch"]

\* results[accountId] = count, or `Error: ${error.message}`
BatchValue(a, res) ==
    IF res.kind = "ok"
    THEN [acct |-> a, kind |-> "count", count |-> res.count, msg |-> <<>>]
    ELSE [acct |-> a, kind |-> "error", count |-> 0, msg |-> BatchErrorMsg(res.msg)]

BatchRecord(results, a, res) ==
    {e \in results : e.acct # a} \cup {BatchValue(a, res)}

BatchStart(p, ids) ==
    /\ CanStart(p)
    /\ procs' = [procs EXCEPT ![p] =
                    BatchEnter([IdleProc EXCEPT !.op = "batch", !.ids = ids, !.idx = 1])]
    /\ UNCHANGED <<accounts, workers, now, config>>

\* A loop that does not await: it moves on while the sync is still in flight.
BatchIterEager(p) ==
    /\ procs[p].op = "batch"
    /\ procs[p].pc \in {"loop", "fetch"}
    /\ LET pr == procs[p]
           a == pr.ids[pr.idx]
       IN procs' = [procs EXCEPT ![p] =
              BatchEnter([pr EXCEPT
                  !.results = BatchRecord(pr.results, a, pr.result),
                  !.log = Append(pr.log, [acct |-> a, kind |-> pr.result.kind,
                                          count |-> pr.result.count,
                                          msg |-> pr.result.msg]),
                  !.idx = pr.idx + 1,
                  !.result = NoResult])]
    /\ UNCHANGED <<accounts, workers, now, config>>

\* The loop takes the settled result, then starts the next account or returns.
BatchIter(p) ==
    /\ procs[p].op = "batch"
    /\ procs[p].pc = "loop"
    /\ LET pr == procs[p]
           a == pr.ids[pr.idx]
       IN procs' = [procs EXCEPT ![p] =
              BatchEnter([pr EXCEPT
                  !.results = BatchRecord(pr.results, a, pr.result),
                  !.log = Append(pr.log, [acct |-> a, kind |-> pr.result.kind,
                                          count |-> pr.result.count,
                                          msg |-> pr.result.msg]),
                  !.idx = pr.idx + 1,
                  !.result = NoResult])]
    /\ UNCHANGED <<accounts, workers, now, config>>

\* ------------------------------------------------------- updateWorkerScript
\* The UPDATE without its WHERE clause.
StampEveryRow(ws, id, t) ==
    {[r EXCEPT !.modifiedOn = Stamp(t), !.lastSynced = Stamp(t)] : r \in ws}

\* UPDATE workers SET modified_on = now, last_synced = now WHERE id = ?
StampRow(ws, id, t) ==
    {IF r.id = id THEN [r EXCEPT !.modifiedOn = Stamp(t), !.lastSynced = Stamp(t)] ELSE r :
        r \in ws}

\* Lines 151-165 and 180-195: both lookups, then listWorkers() is issued.
WorkerLookup(pr, n, a, missingMsg) ==
    IF ~HasAccount(accounts, a)
    THEN Settle([pr EXCEPT !.acct = a, !.name = n], Thrown(AccountNotFoundMsg(a)))
    ELSE IF FindRows(workers, n, a) = {}
    THEN Settle([pr EXCEPT !.acct = a, !.name = n], Thrown(missingMsg))
    ELSE [pr EXCEPT !.acct = a, !.name = n, !.pc = "list",
                    !.rowId = (CHOOSE r \in FindRows(workers, n, a) : TRUE).id,
                    !.list = ListPending, !.calls = [NoCalls EXCEPT !.list = 1]]

UpdateStart(p, n, a) ==
    /\ CanStart(p)
    /\ procs' = [procs EXCEPT ![p] =
          WorkerLookup([IdleProc EXCEPT !.op = "update"], n, a, WorkerNotInAccountMsg(n, a))]
    /\ UNCHANGED <<accounts, workers, now, config>>

\* A find that always finds.
ListedAlways(list, n) == TRUE

\* workers.find(w => w.id === workerName)
Listed(list, n) == n \in ListedIds(list)

\* Lines 165-173: listWorkers() settles to r.
UpdateAfterList(p, r) ==
    /\ procs[p].op = "update"
    /\ procs[p].pc = "list"
    /\ LET pr == procs[p] IN
       procs' = [procs EXCEPT ![p] =
          IF r.st = "fail"
          THEN Settle(pr, Thrown(<<r.err>>))
          ELSE IF ~Listed(r.val, pr.name)
          THEN Settle(pr, Thrown(WorkerNotInCloudflareMsg(pr.name)))
          ELSE [pr EXCEPT !.pc = "remote", !.list = ListUnused, !.rem = Pending,
                          !.calls.upd = pr.calls.upd + 1]]
    /\ UNCHANGED <<accounts, workers, now, config>>

\* Lines 173-176: the provider's updateWorkerScript() settles to r.
UpdateFinish(p, r) ==
    /\ procs[p].op = "update"
    /\ procs[p].pc = "remote"
    /\ IF r.st = "fail"
       THEN /\ procs' = [procs EXCEPT ![p] = Settle(procs[p], Thrown(<<r.err>>))]
            /\ UNCHANGED workers
       ELSE /\ workers' = StampRow(workers, procs[p].rowId, now)
            /\ procs' = [procs EXCEPT ![p] = Settle(procs[p], ReturnedVoid)]
    /\ UNCHANGED <<accounts, now, config>>

\* ------------------------------------------------------------- deleteWorker
\* DELETE FROM workers WHERE id = ?
DeleteRow(ws, id) == {r \in ws : r.id # id}

DeleteStart(p, n, a) ==
    /\ CanStart(p)
    /\ procs' = [procs EXCEPT ![p] =
          WorkerLookup([IdleProc EXCEPT !.op = "delete"], n, a, WorkerNotInDatabaseMsg(n))]
    /\ UNCHANGED <<accounts, workers, now, config>>

\* Lines 195-202: listWorkers() settles to r; a worker the provider still
\* lists is deleted there first, one it no longer lists is deleted locally
\* at once.
DeleteAfterList(p, r) ==
    /\ procs[p].op = "delete"
    /\ procs[p].pc = "list"
    /\ LET pr == procs[p] IN
       IF r.st = "fail"
       THEN /\ procs' = [procs EXCEPT ![p] = Settle(pr, Thrown(<<r.err>>))]
            /\ UNCHANGED workers
       ELSE IF Listed(r.val, pr.name)
       THEN /\ procs' = [procs EXCEPT ![p] =
                  [pr EXCEPT !.pc = "remote", !.list = ListUnused, !.rem = Pending,
                             !.calls.del = pr.calls.del + 1]]
            /\ UNCHANGED workers
       ELSE /\ workers' = DeleteRow(workers, pr.rowId)
            /\ procs' = [procs EXCEPT ![p] = Settle(pr, ReturnedVoid)]
    /\ UNCHANGED <<accounts, now, config>>

\* Lines 199-202: the provider's deleteWorker() settles to r.
DeleteFinish(p, r) ==
    /\ procs[p].op = "delete"
    /\ procs[p].pc = "remote"
    /\ IF r.st = "fail"
       THEN /\ procs' = [procs EXCEPT ![p] = Settle(procs[p], Thrown(<<r.err>>))]
            /\ UNCHANGED workers
       ELSE /\ workers' = DeleteRow(workers, procs[p].rowId)
            /\ procs' = [procs EXCEPT ![p] = Settle(procs[p], ReturnedVoid)]
    /\ UNCHANGED <<accounts, now, config>>

\* ------------------------------------------------------------- health check
\* new Date().toISOString(), as the text the column stores.
IsoStamp(t) == "T" \o ToString(t) \o "Z"

\* An UPDATE that leaves last_error as it stands when the probe succeeded.
UpdateAccountHealthKeepError(accts, a, r, t) ==
    {IF x.id = a
     THEN [x EXCEPT !.status = IF r.st = "ok" THEN "active" ELSE "error",
                    !.subdomain = IF r.st = "ok" THEN r.val ELSE NULL,
                    !.lastCheck = IsoStamp(t),
                    !.lastError = IF r.st = "ok" THEN x.lastError ELSE r.err]
     ELSE x : x \in accts}

\* UPDATE accounts SET status, subdomain, last_check, last_error WHERE id = ?
UpdateAccountHealth(accts, a, r, t) ==
    {IF x.id = a
     THEN [x EXCEPT !.status = IF r.st = "ok" THEN "active" ELSE "error",
                    !.subdomain = IF r.st = "ok" THEN r.val ELSE NULL,
                    !.lastCheck = IsoStamp(t),
                    !.lastError = IF r.st = "ok" THEN NULL ELSE r.err]
     ELSE x : x \in accts}

\* Lines 229-257: 404 for an unknown id, else getSubdomain() is issued.
HealthStart(p, a) ==
    /\ CanStart(p)
    /\ procs' = [procs EXCEPT ![p] =
          IF ~HasAccount(accounts, a)
          THEN Settle([IdleProc EXCEPT !.op = "health", !.acct = a],
                      Thrown(<<"Account not found">>))
          ELSE [IdleProc EXCEPT !.op = "health", !.pc = "probe", !.acct = a,
                                !.sub = Pending, !.calls = [NoCalls EXCEPT !.sub = 1]]]
    /\ UNCHANGED <<accounts, workers, now, config>>

\* Lines 257-282: getSubdomain() settles to r and the one UPDATE is made.
HealthFinish(p, r) ==
    /\ procs[p].op = "health"
    /\ procs[p].pc = "probe"
    /\ accounts' = UpdateAccountHealth(accounts, procs[p].acct, r, now)
    /\ procs' = [procs EXCEPT ![p] = Settle(procs[p], ReturnedVoid)]
    /\ UNCHANGED <<workers, now, config>>

\* ---------------------------------------------------------- master password
\* The system configuration: one value per key; setting a key replaces its
\* value.
GetSystemConfig(cfg, key) == cfg[key]

SetSystemConfig(cfg, key, value) == [cfg EXCEPT ![key] = value]

IsMasterPasswordSet(cfg) == GetSystemConfig(cfg, MASTER_PASSWORD_KEY) # NULL

\* bcrypt.hash(password, 10): a salted hash of the password.
BcryptHash(password, salt) == "$2b$10$" \o salt \o "$" \o password

\* POST /init, lines 22-32: the two checks, then bcrypt.hash is awaited.
InitCheck(pr, pw) ==
    IF pw = "" \/ Len(pw) < MinPasswordLength
    THEN Settle([pr EXCEPT !.password = pw],
                Thrown(<<"Password must be at least 8 characters">>))
    ELSE IF IsMasterPasswordSet(config)
    THEN Settle([pr EXCEPT !.password = pw], Thrown(<<"Master password already set">>))
    ELSE [pr EXCEPT !.password = pw, !.pc = "hash"]

InitStart(p, pw) ==
    /\ CanStart(p)
    /\ procs' = [procs EXCEPT ![p] = InitCheck([IdleProc EXCEPT !.op = "init"], pw)]
    /\ UNCHANGED <<accounts, workers, now, config>>

\* bcrypt.hash settles: the hash is stored and the token is issued.
InitFinish(p, salt) ==
    /\ procs[p].op = "init"
    /\ procs[p].pc = "hash"
    /\ config' = SetSystemConfig(config, MASTER_PASSWORD_KEY,
                                  BcryptHash(procs[p].password, salt))
    /\ procs' = [procs EXCEPT ![p] = Settle(procs[p], ReturnedToken)]
    /\ UNCHANGED <<accounts, workers, now>>

\* --------------------------------------------------------------- getWorkers
\* ORDER BY compares text byte by byte: the texts of the two key columns, in
\* that order.
Collation == <<"A", "B", "w1", "w2">>
TextIndex(x) == CHOOSE i \in DOMAIN Collation : Collation[i] = x
TextLess(x, y) == TextIndex(x) < TextIndex(y)

\* r1 sorts strictly before r2 under ORDER BY account_id, name.
RowBefore(r1, r2) ==
    \/ TextLess(r1.accountId, r2.accountId)
    \/ r1.accountId = r2.accountId /\ TextLess(r1.name, r2.name)

RECURSIVE OrderRows(_)
OrderRows(rs) ==
    IF rs = {} THEN <<>>
    ELSE LET first == CHOOSE r \in rs : \A q \in rs : ~RowBefore(q, r)
         IN <<first>> \o OrderRows(rs \ {first})

\* A WHERE clause that binds only the first id of the array.
SelectFirstOnly(ws, given, ids) ==
    IF given /\ Len(ids) > 0 THEN {r \in ws : r.accountId = ids[1]} ELSE ws

\* SELECT * FROM workers [WHERE account_id IN (...)]: the WHERE clause is
\* added only for an array that is given and not empty.
SelectRows(ws, given, ids) ==
    IF given /\ Len(ids) > 0
    THEN {r \in ws : r.accountId \in {ids[i] : i \in DOMAIN ids}}
    ELSE ws

GetWorkersRows(ws, given, ids) == OrderRows(SelectRows(ws, given, ids))

\* getWorkers is synchronous: it starts and returns in one step.
GetWorkers(p, given, ids) ==
    /\ CanStart(p)
    /\ procs' = [procs EXCEPT ![p] =
          Settle([IdleProc EXCEPT !.op = "read", !.filtered = given, !.ids = ids],
                 ReturnedRows(GetWorkersRows(workers, given, ids)))]
    /\ UNCHANGED <<accounts, workers, now, config>>

\* ----------------------------------------------------------- specifications
\* Two overlapping requests on one account.
Next ==
    \/ CreateAccount("A", TokenBody)
    \/ \E p \in Procs : SyncStart(p, "A")
    \/ \E p \in Procs, r \in ListResponses :
          \E f \in FailPoints(r) : SyncListReturn(p, r, f)
    \/ \E p \in Procs, r \in SubdomainResponses(Subdomains) :
          \E f \in FailPoints(procs[p].list) : SyncSubdomainReturn(p, r, f)
    \/ \E p \in Procs, n \in Names : UpdateStart(p, n, "A")
    \/ \E p \in Procs, r \in ListResponses : UpdateAfterList(p, r)
    \/ \E p \in Procs, r \in RemoteResponses : UpdateFinish(p, r)
    \/ \E p \in Procs, n \in Names : DeleteStart(p, n, "A")
    \/ \E p \in Procs, r \in ListResponses : DeleteAfterList(p, r)
    \/ \E p \in Procs, r \in RemoteResponses : DeleteFinish(p, r)

Spec == Init /\ [][Next]_vars

\* One request at a time over both accounts: single syncs and batches.
NextBatch ==
    \/ \E a \in AccountIds : CreateAccount(a, TokenBody)
    \/ \E a \in AccountIds : SyncStart("p1", a)
    \/ \E r \in ListResponses :
          \E f \in FailPoints(r) : SyncListReturn("p1", r, f)
    \/ \E r \in SubdomainResponses({"s1"}) :
          \E f \in FailPoints(procs["p1"].list) : SyncSubdomainReturn("p1", r, f)
    \/ \E ids \in BatchLists : BatchStart("p1", ids)
    \/ BatchIter("p1")

SpecBatch == Init /\ [][NextBatch]_vars

\* One request at a time on one account while the clock advances.
NextClock ==
    \/ Tick
    \/ CreateAccount("A", TokenBody)
    \/ SyncStart("p1", "A")
    \/ \E r \in ListResponses :
          \E f \in FailPoints(r) : SyncListReturn("p1", r, f)
    \/ \E r \in SubdomainResponses(Subdomains) :
          \E f \in FailPoints(procs["p1"].list) : SyncSubdomainReturn("p1", r, f)
    \/ \E n \in Names : UpdateStart("p1", n, "A")
    \/ \E r \in ListResponses : UpdateAfterList("p1", r)
    \/ \E r \in RemoteResponses : UpdateFinish("p1", r)

SpecClock == Init /\ [][NextClock]_vars

\* One request at a time over both accounts: syncs and reads of the mirror.
NextRead ==
    \/ \E a \in AccountIds : CreateAccount(a, TokenBody)
    \/ \E a \in AccountIds : SyncStart("p1", a)
    \/ \E r \in ListResponses :
          \E f \in FailPoints(r) : SyncListReturn("p1", r, f)
    \/ \E r \in SubdomainResponses({"s1"}) :
          \E f \in FailPoints(procs["p1"].list) : SyncSubdomainReturn("p1", r, f)
    \/ GetWorkers("p1", FALSE, <<>>)
    \/ \E ids \in FilterLists : GetWorkers("p1", TRUE, ids)

SpecRead == Init /\ [][NextRead]_vars

\* The account routes that write credentials.
NextCreds ==
    \/ \E a \in AccountIds, b \in Bodies : CreateAccount(a, b)
    \/ \E bs \in ImportLists : ImportAccounts(bs)
    \/ \E a \in AccountIds, b \in Bodies : PutAccount(a, b)

SpecCreds == Init /\ [][NextCreds]_vars

\* An id that a request in flight holds is not handed out to a new account.
IdUnheld(a) == \A p \in Procs : Free(p) \/ procs[p].acct # a

\* One request at a time over both accounts: accounts are created, synced
\* and deleted.
NextStore ==
    \/ \E a \in AccountIds : IdUnheld(a) /\ CreateAccount(a, TokenBody)
    \/ \E a \in AccountIds : DeleteAccount(a)
    \/ \E a \in AccountIds : SyncStart("p1", a)
    \/ \E r \in ListResponses :
          \E f \in FailPoints(r) : SyncListReturn("p1", r, f)
    \/ \E r \in SubdomainResponses({"s1"}) :
          \E f \in FailPoints(procs["p1"].list) : SyncSubdomainReturn("p1", r, f)

SpecStore == Init /\ [][NextStore]_vars

EmailKeyBody ==
    [name |-> "n1", authType |-> "email-key", accountId |-> "cf1",
     apiToken |-> "", authEmail |-> "m1", authKey |-> "k1"]

\* One request at a time on one account: it is created, updated,
\* health-checked, synced and deleted.
NextHealth ==
    \/ IdUnheld("A") /\ CreateAccount("A", TokenBody)
    \/ PutAccount("A", EmailKeyBody)
    \/ DeleteAccount("A")
    \/ SyncStart("p1", "A")
    \/ \E r \in ListResponses :
          \E f \in FailPoints(r) : SyncListReturn("p1", r, f)
    \/ \E r \in SubdomainResponses(Subdomains) :
          \E f \in FailPoints(procs["p1"].list) : SyncSubdomainReturn("p1", r, f)
    \/ HealthStart("p1", "A")
    \/ \E r \in SubdomainResponses(Subdomains) : HealthFinish("p1", r)

SpecHealth == Init /\ [][NextHealth]_vars

\* Two overlapping requests to POST /init.
NextAuth ==
    \/ \E p \in Procs, pw \in Passwords : InitStart(p, pw)
    \/ \E p \in Procs, salt \in Salts : InitFinish(p, salt)

SpecAuth == Init /\ [][NextAuth]_vars

\* ------------------------------------------------------------------- claims
\* The ways one awaited call of request p's sync can settle in a step: the
\* states <<l, s>> in which it leaves listWorkers() and getSubdomain().
SyncArrivals(p) ==
    {<<l, procs[p].sub>> : l \in IF procs[p].list.st = "pending" THEN ListResponses ELSE {}}
    \cup
    {<<procs[p].list, x>> : x \in IF procs[p].sub.st = "pending"
                                  THEN SubdomainResponses(Subdomains) ELSE {}}

\* Request p's syncAccountWorkers settles in this step.
SyncSettles(p) == procs[p].pc = "fetch" /\ procs'[p].pc # "fetch"

\* Request p starts in this step.
Starts(p) == Free(p) /\ procs'[p] # procs[p]

\* C1: when syncAccountWorkers(a) returns a count, the names of a's rows are
\* exactly the worker ids of the fetched listing, one row per listed worker,
\* and no row from before the sync is left.
C1_SyncMirrorsListing ==
    [][\A p \in Procs : SyncSettles(p) =>
         \A ls \in SyncArrivals(p) : \A f \in FailPoints(ls[1]) :
            (SyncResume(p, ls[1], ls[2], f) /\ procs'[p].result.kind = "ok") =>
               LET a == procs[p].acct IN
               /\ NamesOf(workers', a) = ListedIds(ls[1].val)
               /\ Cardinality(RowsOf(workers', a)) = Len(ls[1].val)
               /\ RowsOf(workers', a) \cap workers = {}]_vars

\* A sync returned 1 after replacing the two rows of an earlier sync.
C1_Witness ==
    \E p \in Procs :
       /\ procs[p].op = "sync" /\ procs[p].pc = "done"
       /\ procs[p].result = Returned(1)
       /\ NamesOf(workers, "A") = {"w2"}
       /\ \A r \in workers : r.id = 3

\* C2: when the insert step of a sync throws, the account's rows are what
\* they were before the sync started.
C2_FailedInsertKeepsRows ==
    [][\A p \in Procs : SyncSettles(p) =>
         \A ls \in SyncArrivals(p) : \A f \in FailPoints(ls[1]) :
            (SyncResume(p, ls[1], ls[2], f) /\ f # 0
               /\ PromiseAll(ls[1], ls[2]).st = "ok") =>
               RowsOf(workers', procs[p].acct) = RowsOf(workers, procs[p].acct)]_vars

\* C3: when deleteWorker(name, a) returns without error, no row for
\* (a, name) is in the store.
C3_DeleteLeavesNoRow ==
    [][\A p \in Procs :
         (procs[p].op = "delete" /\ procs[p].pc \in {"list", "remote"}
            /\ procs'[p].pc = "done" /\ procs'[p].result.kind = "ok")
         => FindRows(workers', procs[p].name, procs[p].acct) = {}]_vars

C5_SyncStampsAccount ==
    [][\A p \in Procs : SyncSettles(p) =>
         \A ls \in SyncArrivals(p) : \A f \in FailPoints(ls[1]) :
            (SyncResume(p, ls[1], ls[2], f) /\ procs'[p].result.kind = "ok") =>
               \E r \in accounts' :
                  /\ r.id = procs[p].acct
                  /\ r.subdomain = ls[2].val
                  /\ r.lastCheck = Stamp(now)]_vars

\* The last iteration of a batch that synced account a.
LastOf(pr, a) == CHOOSE i \in DOMAIN pr.ids :
                    pr.ids[i] = a /\ \A j \in DOMAIN pr.ids : pr.ids[j] = a => j <= i

\* C6: the map syncMultipleAccounts returns has exactly the requested ids as
\* keys; every account of the list was synced, whatever became of the ones
\* before it; and each value is the count of that account's sync when it
\* succeeded and "Error: " with its message when it failed.
C6_BatchContainsFailures ==
    \A p \in Procs : (procs[p].op = "batch" /\ procs[p].pc = "done") =>
       LET pr == procs[p] IN
       /\ pr.result.kind = "ok"
       /\ {e.acct : e \in pr.result.map} = {pr.ids[i] : i \in DOMAIN pr.ids}
       /\ Len(pr.log) = Len(pr.ids)
       /\ \A i \in DOMAIN pr.ids : pr.log[i].acct = pr.ids[i] /\ pr.log[i].kind # "none"
       /\ \A e \in pr.result.map :
             LET o == pr.log[LastOf(pr, e.acct)] IN
             /\ Cardinality({d \in pr.result.map : d.acct = e.acct}) = 1
             /\ o.kind = "ok" => e.kind = "count" /\ e.count = o.count
             /\ o.kind = "err" => e.kind = "error" /\ e.msg = <<"Error: ">> \o o.msg

\* A batch over <<B, A>> returned: B was unknown, A was synced after it.
C6_Witness ==
    \E p \in Procs :
       /\ procs[p].op = "batch" /\ procs[p].pc = "done"
       /\ procs[p].ids = <<"B", "A">>
       /\ procs[p].result.map =
             { [acct |-> "B", kind |-> "error", count |-> 0,
                msg |-> <<"Error: ", "Account ", "B", " not found">>],
               [acct |-> "A", kind |-> "count", count |-> 2, msg |-> <<>>] }
       /\ NamesOf(workers, "A") = {"w1", "w2"}

\* C7: syncAccountWorkers on an id that is not in the account store throws
\* the not-found error at once, without a provider call and without
\* touching either table.
C7_UnknownAccountSync ==
    [][\A p \in Procs :
         (Starts(p) /\ procs'[p].op = "sync"
            /\ ~HasAccount(accounts, procs'[p].acct)) =>
            /\ procs'[p].pc = "done"
            /\ procs'[p].result = Thrown(<<"Account ", procs'[p].acct, " not found">>)
            /\ procs'[p].calls = NoCalls
            /\ procs'[p].list.st = "unused" /\ procs'[p].sub.st = "unused"
            /\ workers' = workers
            /\ accounts' = accounts]_vars

\* A sync of the unknown account B has failed while A's rows are in the store.
C7_Witness ==
    \E p \in Procs :
       /\ procs[p].op = "sync" /\ procs[p].pc = "done" /\ procs[p].acct = "B"
       /\ procs[p].result = Thrown(AccountNotFoundMsg("B"))
       /\ ~HasAccount(accounts, "B")
       /\ RowsOf(workers, "A") # {}

\* C8: a step of a sync changes a table only when it leaves both
\* listWorkers() and getSubdomain() fulfilled, whichever settled first; when
\* either is rejected the sync throws an error that names the account and
\* ends with the provider's message, both tables stay as they were, and
\* each provider call has been issued once.
C8_SyncWritesAfterBothCalls ==
    [][\A p \in Procs : procs[p].pc = "fetch" =>
         \A ls \in SyncArrivals(p) : \A f \in FailPoints(ls[1]) :
            SyncResume(p, ls[1], ls[2], f) =>
               LET a == procs[p].acct
                   failed == ls[1].st = "fail" \/ ls[2].st = "fail"
                   cause == IF ls[1].st = "fail" THEN ls[1].err ELSE ls[2].err
               IN
               /\ (workers' # workers \/ accounts' # accounts) =>
                     ls[1].st = "ok" /\ ls[2].st = "ok"
               /\ failed =>
                     /\ procs'[p].pc # "fetch"
                     /\ procs'[p].result.kind = "err"
                     /\ procs'[p].result.msg[2] = a
                     /\ procs'[p].result.msg =
                           <<"Failed to sync workers for account ", a, ": ", cause>>
                     /\ workers' = workers
                     /\ accounts' = accounts
               /\ procs'[p].calls = [NoCalls EXCEPT !.list = 1, !.sub = 1]]_vars

\* One sync is suspended with its subdomain fetched first and the listing
\* outstanding; another has failed on the provider, and A's rows are still
\* in the store.
C8_Witness ==
    \E p, q \in Procs :
       /\ procs[p].pc = "fetch" /\ procs[p].sub.st = "ok" /\ procs[p].list.st = "pending"
       /\ procs[q].op = "sync" /\ procs[q].pc = "done"
       /\ procs[q].result = Thrown(SyncFailedMsg("A", <<"provider unavailable">>))
       /\ RowsOf(workers, "A") # {}

\* C9: when the listing that updateWorkerScript fetched does not contain the
\* worker, the call throws "not found in Cloudflare", has issued no script
\* update, and leaves every row as it was.
C9_UpdateOfUnlistedWorker ==
    [][\A p \in Procs : (procs[p].op = "update" /\ procs[p].pc = "list") =>
         \A r \in ListResponses :
            (UpdateAfterList(p, r) /\ r.st = "ok" /\ procs[p].name \notin ListedIds(r.val)) =>
               /\ procs'[p].pc = "done"
               /\ procs'[p].result =
                     Thrown(<<"Worker ", procs[p].name, " not found in Cloudflare">>)
               /\ procs'[p].calls.upd = 0
               /\ procs'[p].rem.st = "unused"
               /\ workers' = workers
               /\ accounts' = accounts]_vars

\* An update of w1 failed as not found in Cloudflare; its row is in the store.
C9_Witness ==
    \E p \in Procs :
       /\ procs[p].op = "update" /\ procs[p].pc = "done" /\ procs[p].name = "w1"
       /\ procs[p].result = Thrown(WorkerNotInCloudflareMsg("w1"))
       /\ procs[p].calls.upd = 0
       /\ FindRows(workers, "w1", "A") # {}

\* C10: when the listing that deleteWorker fetched does not contain the
\* worker, the call issues no remote delete, returns without error, and no
\* row for (a, name) is left in the store.
C10_DeleteOfUnlistedWorker ==
    [][\A p \in Procs : (procs[p].op = "delete" /\ procs[p].pc = "list") =>
         \A r \in ListResponses :
            (DeleteAfterList(p, r) /\ r.st = "ok" /\ procs[p].name \notin ListedIds(r.val)) =>
               /\ procs'[p].pc = "done"
               /\ procs'[p].result = ReturnedVoid
               /\ procs'[p].calls.del = 0
               /\ procs'[p].rem.st = "unused"
               /\ FindRows(workers', procs[p].name, procs[p].acct) = {}]_vars

\* C11: when updateWorkerScript(name, a, script) returns without error, the
\* provider's copy was updated (one script update was issued and fulfilled)
\* and the row the store holds for (a, name) has modifiedOn and lastSynced
\* at the time of the update, whatever ran while the call was suspended.
C11_UpdateStampsRow ==
    [][\A p \in Procs :
         (procs[p].op = "update" /\ procs[p].pc = "remote"
            /\ procs'[p].pc = "done" /\ procs'[p].result.kind = "ok") =>
            /\ procs'[p].calls.upd = 1
            /\ FindRows(workers, procs[p].name, procs[p].acct) # {} =>
                  FindRows(workers', procs[p].name, procs[p].acct) # {}
            /\ \A r \in FindRows(workers', procs[p].name, procs[p].acct) :
                  r.modifiedOn = Stamp(now) /\ r.lastSynced = Stamp(now)]_vars

\* The (name, url) pairs of an account's rows.
NameUrlPairs(ws, a) == {<<r.name, r.url>> : r \in RowsOf(ws, a)}

\* C12: a sync that returns a count on an account whose rows are those of a
\* sync with the same provider response (the same worker ids, the same
\* subdomain) leaves the number of rows of the account and the set of
\* (name, url) pairs as they were, and no name twice.
C12_ResyncIdempotent ==
    [][\A p \in Procs : SyncSettles(p) =>
         \A ls \in SyncArrivals(p) : \A f \in FailPoints(ls[1]) :
            LET a == procs[p].acct IN
            (/\ SyncResume(p, ls[1], ls[2], f)
             /\ procs'[p].result.kind = "ok"
             /\ NamesOf(workers, a) = ListedIds(ls[1].val)
             /\ Cardinality(RowsOf(workers, a)) = Len(ls[1].val)
             /\ \A r \in RowsOf(workers, a) : r.subdomain = ls[2].val) =>
               /\ Cardinality(RowsOf(workers', a)) = Cardinality(RowsOf(workers, a))
               /\ NameUrlPairs(workers', a) = NameUrlPairs(workers, a)
               /\ \A r1, r2 \in RowsOf(workers', a) : r1.name = r2.name => r1 = r2]_vars

\* A sync of A returned 2 and wrote its rows under the ids 3 and 4: the rows
\* it replaced, ids 1 and 2, were those of the sync before it, which had the
\* same two workers and the same subdomain.
C12_Witness ==
    \E p \in Procs :
       /\ procs[p].op = "sync" /\ procs[p].pc = "done" /\ procs[p].acct = "A"
       /\ procs[p].result = Returned(2)
       /\ ~HasAccount(accounts, "B")
       /\ {r.id : r \in RowsOf(workers, "A")} = {3, 4}
       /\ NameUrlPairs(workers, "A") =
             { <<"w1", <<"https://", "w1", ".", "s1", ".workers.dev">> >>,
               <<"w2", <<"https://", "w2", ".", "s1", ".workers.dev">> >> }

\* The rows of a sequence, and whether it is ascending by (accountId, name).
RowSet(rs) == {rs[i] : i \in DOMAIN rs}
Ascending(rs) == \A i, j \in DOMAIN rs : i < j => ~RowBefore(rs[j], rs[i])

\* C13: getWorkers() without a filter returns every row; getWorkers(ids)
\* returns exactly the rows whose accountId is in the given array, for every
\* given array, the empty one included; the result is ascending by
\* (accountId, name), holds each row once, and the call never throws.
C13_GetWorkersFilter ==
    [][\A p \in Procs : (Starts(p) /\ procs'[p].op = "read") =>
         LET pr == procs'[p]
             rs == pr.result.rows
         IN /\ pr.pc = "done" /\ pr.result.kind = "ok"
            /\ Len(rs) = Cardinality(RowSet(rs))
            /\ Ascending(rs)
            /\ ~pr.filtered => RowSet(rs) = workers
            /\ pr.filtered =>
                  RowSet(rs) = {r \in workers : \E i \in DOMAIN pr.ids : r.accountId = pr.ids[i]}]_vars

\* C13 as amended: the same, except that an empty array is no filter and
\* returns every row.
C13_GetWorkersNonEmptyFilter ==
    [][\A p \in Procs : (Starts(p) /\ procs'[p].op = "read") =>
         LET pr == procs'[p]
             rs == pr.result.rows
         IN /\ pr.pc = "done" /\ pr.result.kind = "ok"
            /\ Len(rs) = Cardinality(RowSet(rs))
            /\ Ascending(rs)
            /\ (~pr.filtered \/ pr.ids = <<>>) => RowSet(rs) = workers
            /\ (pr.filtered /\ pr.ids # <<>>) =>
                  RowSet(rs) = {r \in workers : \E i \in DOMAIN pr.ids : r.accountId = pr.ids[i]}]_vars

\* getWorkers(["Z", "B"]) returned B's two rows, w1 before w2, while A has
\* rows as well.
C13_Witness ==
    \E p \in Procs :
       /\ procs[p].op = "read" /\ procs[p].pc = "done"
       /\ procs[p].filtered /\ procs[p].ids = <<"Z", "B">>
       /\ Len(procs[p].result.rows) = 2
       /\ procs[p].result.rows[1].name = "w1" /\ procs[p].result.rows[2].name = "w2"
       /\ \A i \in 1..2 : procs[p].result.rows[i].accountId = "B"
       /\ RowsOf(workers, "A") # {}

\* C14: a batch is at one account of its list at a time, in list order: while
\* it runs, the syncs of all accounts before the current one have returned
\* or thrown and are recorded in order, the provider calls in flight are
\* the two of the current account, and a step of the batch writes rows of
\* the current account only.
C14_BatchSequential ==
    [][\A p \in Procs :
         /\ (procs'[p].op = "batch" /\ procs'[p].pc \in {"fetch", "loop"}) =>
               LET pr == procs'[p] IN
               /\ pr.idx \in 1..Len(pr.ids)
               /\ pr.acct = pr.ids[pr.idx]
               /\ Len(pr.log) = pr.idx - 1
               /\ \A i \in 1..(pr.idx - 1) :
                     pr.log[i].acct = pr.ids[i] /\ pr.log[i].kind \in {"ok", "err"}
               /\ pr.pc = "fetch" =>
                     /\ pr.calls = [NoCalls EXCEPT !.list = 1, !.sub = 1]
                     /\ pr.list.st = "pending" \/ pr.sub.st = "pending"
               /\ pr.pc = "loop" => pr.list.st = "unused" /\ pr.sub.st = "unused"
         /\ (procs[p].op = "batch" /\ procs'[p] # procs[p]) =>
               /\ \A r \in (workers' \ workers) \cup (workers \ workers') :
                     procs[p].pc = "fetch" /\ r.accountId = procs[p].ids[procs[p].idx]
               /\ accounts' # accounts => procs[p].pc = "fetch"]_vars

\* A batch over <<A, B>> awaits the provider for B after the sync of A has
\* returned 2 and written A's rows.
C14_Witness ==
    \E p \in Procs :
       /\ procs[p].op = "batch" /\ procs[p].pc = "fetch"
       /\ procs[p].ids = <<"A", "B">> /\ procs[p].idx = 2
       /\ procs[p].log[1].kind = "ok" /\ procs[p].log[1].count = 2
       /\ procs[p].list.st = "pending"
       /\ NamesOf(workers, "A") = {"w1", "w2"}

\* C15: a sync whose two provider calls are fulfilled and whose inserts do
\* not throw returns the length of the fetched listing, which is the number
\* of rows the account then has; on an empty listing it returns 0, not an
\* error, and leaves the account without rows and every other row in place.
C15_SyncReturnsCount ==
    [][\A p \in Procs : SyncSettles(p) =>
         \A ls \in SyncArrivals(p) :
            (SyncResume(p, ls[1], ls[2], 0) /\ PromiseAll(ls[1], ls[2]).st = "ok") =>
               LET a == procs[p].acct
                   n == Len(ls[1].val)
               IN /\ procs'[p].result = Returned(n)
                  /\ Cardinality(RowsOf(workers', a)) = n
                  /\ n = 0 => workers' = workers \ RowsOf(workers, a)]_vars

\* A sync returned 0 and the store has no rows, on an account that an
\* earlier sync, which wrote rows, has given its subdomain.
C15_Witness ==
    \E p \in Procs :
       /\ procs[p].op = "sync" /\ procs[p].pc = "done"
       /\ procs[p].result = Returned(0)
       /\ workers = {}
       /\ \E r \in accounts : r.id = "A" /\ r.subdomain # NULL

\* r2 is r with at most modifiedOn and lastSynced changed.
SameButStamps(r, r2) ==
    r2 = [r EXCEPT !.modifiedOn = r2.modifiedOn, !.lastSynced = r2.lastSynced]

\* C16: the step in which updateWorkerScript returns without error leaves
\* every account row as it was and every worker row as it was except at
\* most one, a row for (a, name), of which only modifiedOn and lastSynced
\* differ; no row is added or removed.
C16_UpdateTouchesStampsOnly ==
    [][\A p \in Procs :
         (procs[p].op = "update" /\ procs[p].pc = "remote"
            /\ procs'[p].pc = "done" /\ procs'[p].result.kind = "ok") =>
            LET before == workers \ workers'
                after == workers' \ workers
            IN /\ accounts' = accounts
               /\ Cardinality(workers') = Cardinality(workers)
               /\ Cardinality(before) <= 1 /\ Cardinality(after) <= 1
               /\ \A r \in before :
                     /\ r.name = procs[p].name /\ r.accountId = procs[p].acct
                     /\ \E r2 \in after : SameButStamps(r, r2)
               /\ \A r2 \in after : \E r \in before : SameButStamps(r, r2)]_vars

\* An update of w1 returned: its row carries the stamp and still the
\* provider's scriptHash and createdOn, and the row of w2 is as synced.
C16_Witness ==
    \E p \in Procs :
       /\ procs[p].op = "update" /\ procs[p].pc = "done" /\ procs[p].name = "w1"
       /\ procs[p].result = ReturnedVoid
       /\ \E r \in FindRows(workers, "w1", "A") :
             /\ r.modifiedOn = Stamp(now) /\ r.lastSynced = Stamp(now)
             /\ r.scriptHash = "e1" /\ r.createdOn = "c1"
       /\ \E r \in FindRows(workers, "w2", "A") : r.modifiedOn = NULL

\* C17: every account has exactly the credential shape of its authType: a
\* token account has apiToken set and authEmail and authKey null, an
\* email-key account has authEmail and authKey set and apiToken null.
C17_CredentialShape ==
    \A r \in accounts :
       /\ r.authType = "token" =>
             r.apiToken # NULL /\ r.authEmail = NULL /\ r.authKey = NULL
       /\ r.authType = "email-key" =>
             r.authEmail # NULL /\ r.authKey # NULL /\ r.apiToken = NULL

\* C18: deleting an account leaves no worker row of it, and every worker
\* row's accountId is the id of an account in the store, in every state,
\* also when a sync of the account was suspended over the delete and then
\* ran its writes.
C18_RowsHaveAccount ==
    [][/\ \A r \in workers' : HasAccount(accounts', r.accountId)
       /\ \A a \in AccountIds :
             (HasAccount(accounts, a) /\ ~HasAccount(accounts', a)) =>
                RowsOf(workers', a) = {}]_vars

\* A sync of A whose provider calls were fulfilled with a listing of two
\* workers has thrown: A was deleted while it was suspended; A is not in
\* the store and no row is, while B, created before, still is.
C18_Witness ==
    \E p \in Procs :
       /\ procs[p].op = "sync" /\ procs[p].pc = "done" /\ procs[p].acct = "A"
       /\ procs[p].result = Thrown(SyncFailedMsg("A", <<StorageError>>))
       /\ ~HasAccount(accounts, "A")
       /\ HasAccount(accounts, "B")
       /\ RowsOf(workers, "B") # {}
       /\ RowsOf(workers, "A") = {}

\* C19: with two syncs of one account overlapping, whenever a sync writes
\* the account's rows they are the mirror of the listing that this sync
\* fetched: one row per fetched worker, no name twice, and no row of the
\* listing of the other sync.
C19_OverlappingSyncsMirrorOne ==
    [][\A p \in Procs : SyncSettles(p) =>
         \A ls \in SyncArrivals(p) : \A f \in FailPoints(ls[1]) :
            (SyncResume(p, ls[1], ls[2], f) /\ workers' # workers) =>
               LET a == procs[p].acct IN
               /\ NamesOf(workers', a) = ListedIds(ls[1].val)
               /\ Cardinality(RowsOf(workers', a)) = Len(ls[1].val)
               /\ RowsOf(workers', a) \cap workers = {}]_vars

\* C20: once an account's subdomain is set, no step sets it back to null
\* while the account exists.
C20_SubdomainStaysSet ==
    [][\A r \in accounts : \A r2 \in accounts' :
          (r2.id = r.id /\ r.subdomain # NULL) => r2.subdomain # NULL]_vars

\* C21: the step in which a health check gets the provider's answer writes
\* the four fields of its account together: status active, the fetched
\* subdomain and lastError null when getSubdomain() was fulfilled, status
\* error and lastError the provider's message when it was rejected,
\* lastCheck the time of the check in both cases; and after every step
\* each account's status is active exactly when its lastError is null.
C21_HealthCheckWritesStatus ==
    [][/\ \A x \in accounts' : (x.status = "active") <=> (x.lastError = NULL)
       /\ \A p \in Procs : (procs[p].op = "health" /\ procs[p].pc = "probe") =>
             \A r \in SubdomainResponses(Subdomains) :
                HealthFinish(p, r) =>
                   /\ {x.id : x \in accounts'} = {x.id : x \in accounts}
                   /\ \A x \in accounts' :
                         IF x.id # procs[p].acct THEN x \in accounts
                         ELSE /\ x.lastCheck = IsoStamp(now)
                              /\ r.st = "ok" =>
                                    /\ x.status = "active" /\ x.lastError = NULL
                                    /\ x.subdomain = r.val
                              /\ r.st = "fail" =>
                                    x.status = "error" /\ x.lastError = r.err]_vars

\* A health check of A has ended after the provider failed: A is in error
\* with the provider's message, checked at the current time, while the
\* rows of an earlier sync are in the store.
C21_Witness ==
    \E p \in Procs :
       /\ procs[p].op = "health" /\ procs[p].pc = "done" /\ procs[p].acct = "A"
       /\ \E x \in accounts :
             /\ x.id = "A" /\ x.status = "error" /\ x.lastError = "rate limited"
             /\ x.lastCheck = IsoStamp(now)
       /\ RowsOf(workers, "A") # {}

\* C22: once a password hash is stored, no step changes it and no init
\* request that ends is answered with a token, whenever that request arrived.
C22_InitAtMostOnce ==
    [][IsMasterPasswordSet(config) =>
         /\ config' = config
         /\ \A p \in Procs :
               (procs'[p] # procs[p] /\ procs'[p].op = "init" /\ procs'[p].pc = "done") =>
                  ~procs'[p].result.token]_vars

\* C23: every step of syncAccountWorkers(a), from its start to its return
\* or throw, leaves the worker rows and the account rows of all accounts
\* other than a as they were.
C23_SyncFrame ==
    [][\A p \in Procs :
         /\ (Starts(p) /\ procs'[p].op = "sync") =>
               workers' = workers /\ accounts' = accounts
         /\ (procs[p].pc = "fetch" /\ procs'[p] # procs[p]) =>
               LET a == procs[p].acct IN
               /\ \A b \in AccountIds \ {a} : RowsOf(workers', b) = RowsOf(workers, b)
               /\ {x \in accounts' : x.id # a} = {x \in accounts : x.id # a}]_vars

\* A sync of A has returned 1 and A has its row and its subdomain, while
\* B holds the two rows and the account row of its own earlier sync.
C23_Witness ==
    \E p \in Procs :
       /\ procs[p].op = "sync" /\ procs[p].pc = "done" /\ procs[p].acct = "A"
       /\ procs[p].result = Returned(1)
       /\ Cardinality(RowsOf(workers, "A")) = 1
       /\ NamesOf(workers, "B") = {"w1", "w2"}
       /\ \E x \in accounts : x.id = "B" /\ x.subdomain = "s1" /\ x.lastCheck = Stamp(now)
====
